---------------------------- MODULE Spec2Model ----------------------------
(***************************************************************************)
(* Round-robin allocation of doubles-tennis players: the three scripts     *)
(* benchAlloc.py (BenchPlanner), teamAlloc.py (GroupPairer) and            *)
(* courtAlloc.py (CourtAssigner).  Each script parses its arguments,       *)
(* builds a CP-SAT model, and hands the solver a callback that is invoked  *)
(* once per feasible solution.  A CpModel is represented by the set of     *)
(* assignments of its boolean variables that satisfy every constraint the  *)
(* script adds; the solver delivers members of that set to the callback.   *)
(***************************************************************************)
EXTENDS Integers, Sequences, FiniteSets, TLC

VARIABLES
    prog,           \* which script is running
    num_players,    \* args['players']
    num_rounds,     \* args['rounds']
    num_courts,     \* args['courts']
    benchFile,      \* content of <fname>
    groupsFile,     \* content of groups_<fname>
    prefinalFile,   \* content of prefinal_<fname>: the round lines of a courtAlloc.py report
    finalFile,      \* content of final_<fname>
    pc,             \* position of main(): "main", "solving" (in solver.Solve), "done"
    err,            \* exception that ended main(), or "none"
    model,          \* the CpModel: the set of assignments it admits
    value,          \* the solution the solver holds during the last callback
    printer,        \* fields of the solution callback object
    printit,        \* the last callback printed and wrote its solution
    stopped         \* StopSearch() has been called

vars == <<prog, num_players, num_rounds, num_courts, benchFile, groupsFile,
          prefinalFile, finalFile, pc, err, model, value, printer, printit, stopped>>

config == <<prog, num_players, num_rounds, num_courts>>

-----------------------------------------------------------------------------
(* Bounds of the exploration *)

MaxPlayers == 8
MaxRounds == 4
\* largest number of bench[(player, round)] variables of an explored model
MaxCells == 21
\* largest roster and number of (player, round) pairs explored for teamAlloc.py
MaxTeamPlayers == 6
MaxTeamCells == 16
\* largest number of solutions the solver delivers in one run
MaxSolutions == 2

\* a file, and the solver's current solution, are absent or hold one content
NoFile == {}
NoValue == {}
Some(x) == {x}
The(opt) == CHOOSE x \in opt : TRUE

-----------------------------------------------------------------------------
(* Helpers *)

RECURSIVE SumOver(_, _)
\* sum(f[x] for x in S)
SumOver(f, S) ==
    IF S = {} THEN 0
    ELSE LET x == CHOOSE y \in S : TRUE
         IN  f[x] + SumOver(f, S \ {x})

\* the members of a set of integers as a list in increasing order: the
\* member at place i has i-1 members below it
Ascending(S) ==
    IF S = {} THEN <<>>
    ELSE [i \in 1 .. Cardinality(S) |->
            CHOOSE m \in S : Cardinality({ z \in S : z < m }) = i - 1]

\* math.floor(a/b) and math.ceil(a/b) for a >= 0, b > 0
floor_div(a, b) == a \div b
ceil_div(a, b) == (a + b - 1) \div b

-----------------------------------------------------------------------------
(* Data shared by the three scripts *)

num_players_per_court == 4
num_bench == num_players - (num_courts * num_players_per_court)
all_players == 0 .. (num_players - 1)
all_rounds == 0 .. (num_rounds - 1)
all_played_courts == 0 .. (num_courts - 1)
all_courts == 0 .. num_courts
\* range(num_courts+1, num_courts+1)
all_bench == (num_courts + 1) .. num_courts
benchcourt == num_courts

min_bench == floor_div(num_rounds * num_bench, num_players)
max_bench == ceil_div(num_rounds * num_bench, num_players)
distance_on_bench == ceil_div(num_players, num_bench) - 2

\* the configurations explored: at least 4 players per court
Configs ==
    { c \in (4 .. MaxPlayers) \X (1 .. MaxRounds) \X (1 .. (MaxPlayers \div 4)) :
        /\ c[1] >= 4 * c[3]
        /\ c[1] * c[2] <= MaxCells }

-----------------------------------------------------------------------------
(* benchAlloc.py : BenchPlanner *)

\* mutant: the roster is bounded, not fixed
BenchConstraint1_AtMost(col) ==
    SumOver(col, all_players) <= num_bench

\* constraint #1 for one round; col[player] is bench[(player, round)]
BenchConstraint1(col) ==
    SumOver(col, all_players) = num_bench

\* mutant: the block of constraint #2 is switched off
BenchConstraint2_Off(bench) ==
    TRUE

\* constraint #2: b_var[p1, t1] <=> bench[(p1, t1)] == 1, min <= sum <= max
BenchConstraint2(bench) ==
    \A p1 \in all_players :
        LET tmp == [t1 \in all_rounds |-> IF bench[<<p1, t1>>] = 1 THEN 1 ELSE 0]
        IN  /\ SumOver(tmp, all_rounds) >= min_bench
            /\ SumOver(tmp, all_rounds) <= max_bench

\* mutant: t2 stops at the last round instead of wrapping around
BenchWindow_NoWrap ==
    { tt \in all_rounds \X (1 .. (num_rounds + distance_on_bench)) :
        tt[2] >= tt[1] + 1 /\ tt[2] < tt[1] + 1 + distance_on_bench /\ tt[2] < num_rounds }

\* the (t1, t2) index pairs of constraint #3: t2 in range(t1+1, t1+1+distance_on_bench)
BenchWindow ==
    { tt \in all_rounds \X (1 .. (num_rounds + distance_on_bench)) :
        tt[2] >= tt[1] + 1 /\ tt[2] < tt[1] + 1 + distance_on_bench }

\* mutant: the block of constraint #3 is switched off
BenchConstraint3_Off(bench) ==
    TRUE

\* constraint #3: b_var <=> bench[(p1,t1)] + bench[(p1,tn)] == 2, sum == 0
BenchConstraint3(bench) ==
    \A p1 \in all_players :
        LET tmp == [tt \in BenchWindow |->
                      LET tn == tt[2] % num_rounds
                      IN  IF bench[<<p1, tt[1]>>] + bench[<<p1, tn>>] = 2
                          THEN 1 ELSE 0]
        IN  SumOver(tmp, BenchWindow) = 0

\* the bench[(player, round)] matrices whose every round satisfies constraint #1
BenchMatrices ==
    LET Cols == { col \in [all_players -> {0, 1}] : BenchConstraint1(col) }
    IN  { [pr \in all_players \X all_rounds |-> cols[pr[2]][pr[1]]] :
            cols \in [all_rounds -> Cols] }

\* mutant: the blocks of constraints #2 and #3 are switched off
BenchModel_RosterOnly ==
    BenchMatrices

\* the model built by main(): constraints #1, #2, #3
BenchModel ==
    { bench \in BenchMatrices : BenchConstraint2(bench) /\ BenchConstraint3(bench) }

RECURSIVE BenchList(_, _)
\* write_bench: player+1 for each round, for each player on the bench;
\* the entries of rounds round .. num_rounds-1
BenchList(bench, round) ==
    IF round >= num_rounds THEN <<>>
    ELSE Ascending({ player + 1 : player \in { p \in all_players : bench[<<p, round>>] = 1 } })
         \o BenchList(bench, round + 1)

write_bench(bench) == BenchList(bench, 0)

\* objective #1: b_var[p1, p2, t1, t2] <=> the four bench variables sum to 4,
\* for p1 < p2 and t1 < t2; the objective is sum(tmp)
BenchObjective(bench) ==
    LET pairs == { pp \in all_players \X all_players : pp[1] < pp[2] }
        rounds == { tt \in all_rounds \X all_rounds : tt[1] < tt[2] }
        b_var(p1, p2, t1, t2) ==
            IF bench[<<p1, t1>>] + bench[<<p2, t1>>]
               + bench[<<p1, t2>>] + bench[<<p2, t2>>] = 4
            THEN 1 ELSE 0
        tmp == [pp \in pairs |->
                  SumOver([tt \in rounds |-> b_var(pp[1], pp[2], tt[1], tt[2])], rounds)]
    IN  SumOver(tmp, pairs)

\* mutant: r2 runs over all the rounds other than r1
BenchSamePlayers_AnyOrder(bench) ==
    Cardinality({ q \in all_players \X all_players \X all_rounds \X all_rounds :
                    /\ q[1] < q[2] /\ q[3] # q[4]
                    /\ bench[<<q[1], q[3]>>] + bench[<<q[2], q[3]>>]
                       + bench[<<q[1], q[4]>>] + bench[<<q[2], q[4]>>] = 4 })

\* print_player_stat: pairs p1<p2 and rounds r1<r2 with both on the bench in both
BenchSamePlayers(bench) ==
    Cardinality({ q \in all_players \X all_players \X all_rounds \X all_rounds :
                    /\ q[1] < q[2] /\ q[3] < q[4]
                    /\ bench[<<q[1], q[3]>>] + bench[<<q[2], q[3]>>]
                       + bench[<<q[1], q[4]>>] + bench[<<q[2], q[4]>>] = 4 })

bench_solution_limit == 50

\* a bench list of num_bench entries per round: for a step s, round r lists the
\* players r*s, r*s + 1, ... (cyclically, as player+1)
RotationBench(s) ==
    [i \in 1 .. (num_bench * num_rounds) |->
        ((((i - 1) \div num_bench) * s + ((i - 1) % num_bench)) % num_players) + 1]

\* what the bench file holds when benchAlloc.py starts: nothing, or the list
\* left by an earlier run
BenchFilesBefore ==
    { NoFile, Some(RotationBench(1)) }

InitBench ==
    /\ prog = "benchAlloc"
    /\ \E c \in Configs :
        /\ num_players = c[1]
        /\ num_rounds = c[2]
        /\ num_courts = c[3]
    /\ benchFile \in BenchFilesBefore
    /\ groupsFile = NoFile
    /\ prefinalFile = NoFile
    /\ finalFile = NoFile
    /\ pc = "main"
    /\ err = "none"
    /\ model = {}
    /\ value = NoValue
    /\ printer = [_solution_count |-> 0]
    /\ printit = FALSE
    /\ stopped = FALSE

\* main() with num_bench == 0: line 140 is the bare name `exit`, which is not a
\* call, so main() goes on to line 144 and divides by zero
BenchMainNoBench ==
    /\ prog = "benchAlloc" /\ pc = "main"
    /\ num_bench = 0
    /\ pc' = "done"
    /\ err' = "ZeroDivisionError"
    /\ UNCHANGED <<config, prefinalFile, finalFile, benchFile, groupsFile, model, value, printer, printit, stopped>>

\* main() with num_bench > 0 up to solver.Solve
BenchMainBuild ==
    /\ prog = "benchAlloc" /\ pc = "main"
    /\ num_bench > 0
    /\ model' = BenchModel
    /\ printer' = [_solution_count |-> 0, _solution_limit |-> bench_solution_limit,
                   sameplayers |-> 0]
    /\ pc' = "solving"
    /\ UNCHANGED <<config, prefinalFile, finalFile, benchFile, groupsFile, err, value, printit, stopped>>

\* mutant: write_bench is called for the first solution only
BenchOnSolutionCallback_KeepFirst ==
    /\ prog = "benchAlloc" /\ pc = "solving"
    /\ ~stopped
    /\ printer._solution_count < MaxSolutions
    /\ \E bench \in model :
        /\ Some(bench) # value
        /\ value' = Some(bench)
        /\ printer' = [printer EXCEPT !._solution_count = @ + 1,
                                      !.sameplayers = BenchSamePlayers(bench)]
        /\ benchFile' = IF printer._solution_count = 0
                         THEN Some(write_bench(bench)) ELSE benchFile
        /\ printit' = TRUE
        /\ stopped' = (printer._solution_count + 1 >= printer._solution_limit)
    /\ UNCHANGED <<config, prefinalFile, finalFile, groupsFile, pc, err, model>>

\* PlayersPartialSolutionPrinter.on_solution_callback; the solver delivers a
\* solution other than the one before
BenchOnSolutionCallback ==
    /\ prog = "benchAlloc" /\ pc = "solving"
    /\ ~stopped
    /\ printer._solution_count < MaxSolutions
    /\ \E bench \in model :
        /\ Some(bench) # value
        /\ value' = Some(bench)
        /\ printer' = [printer EXCEPT !._solution_count = @ + 1,
                                      !.sameplayers = BenchSamePlayers(bench)]
        /\ benchFile' = Some(write_bench(bench))
        /\ printit' = TRUE
        /\ stopped' = (printer._solution_count + 1 >= printer._solution_limit)
    /\ UNCHANGED <<config, prefinalFile, finalFile, groupsFile, pc, err, model>>

\* solver.Solve returns and main() prints the statistics
BenchSolveReturns ==
    /\ prog = "benchAlloc" /\ pc = "solving"
    /\ model = {} \/ printer._solution_count >= 1
    /\ pc' = "done"
    /\ UNCHANGED <<config, prefinalFile, finalFile, benchFile, groupsFile, err, model, value, printer, printit, stopped>>

NextBench ==
    \/ BenchMainNoBench
    \/ BenchMainBuild
    \/ BenchOnSolutionCallback
    \/ BenchSolveReturns

SpecBench == InitBench /\ [][NextBench]_vars

-----------------------------------------------------------------------------
(* benchAlloc.py on two larger configurations *)

\* bench[(p1, t)] of one player over the rounds
BenchRow(bench, p1) == [t1 \in all_rounds |-> bench[<<p1, t1>>]]

\* constraint #2 as it bears on one player's row
BenchRowConstraint2(row) ==
    LET tmp == [t1 \in all_rounds |-> IF row[t1] = 1 THEN 1 ELSE 0]
    IN  /\ SumOver(tmp, all_rounds) >= min_bench
        /\ SumOver(tmp, all_rounds) <= max_bench

\* constraint #3 as it bears on one player's row
BenchRowConstraint3(row) ==
    LET tmp == [tt \in BenchWindow |->
                  LET tn == tt[2] % num_rounds
                  IN  IF row[tt[1]] + row[tn] = 2 THEN 1 ELSE 0]
    IN  SumOver(tmp, BenchWindow) = 0

\* mutant: the blocks of constraints #2 and #3 are switched off
BenchRowAdmitted_Any(row) ==
    TRUE

\* the rows that constraints #2 and #3 leave to a player
BenchRowAdmitted(row) ==
    BenchRowConstraint2(row) /\ BenchRowConstraint3(row)

MaxScenarioOffset == 7
MaxScenarioStep == 2

\* a bench matrix in which round r seats the players a + s*r, a + off + s*r,
\* a + 2*off + s*r, ... (num_bench of them, modulo num_players)
ShiftedBench(a, off, s) ==
    [pr \in all_players \X all_rounds |->
        IF \E j \in 0 .. (num_bench - 1) : (a + j * off + s * pr[2]) % num_players = pr[1]
        THEN 1 ELSE 0]

\* the matrices among which the solver's solutions are drawn for this configuration
ShiftedMatrices ==
    { ShiftedBench(a, off, s) :
        a \in all_players, off \in 1 .. MaxScenarioOffset, s \in 0 .. MaxScenarioStep }

\* the shifted matrices that the model built by main() admits
ShiftedBenchModel ==
    { bench \in ShiftedMatrices :
        /\ \A round \in all_rounds :
              BenchConstraint1([player \in all_players |-> bench[<<player, round>>]])
        /\ BenchConstraint2(bench)
        /\ BenchConstraint3(bench) }

\* 14 players, 6 rounds, 3 courts, where nobody sits out twice; and 8 players,
\* 3 rounds, 1 court, where four players do
BenchScenarioConfigs ==
    { <<14, 6, 3>>, <<8, 3, 1>> }

InitBenchScenario ==
    /\ prog = "benchAlloc"
    /\ \E c \in BenchScenarioConfigs :
        /\ num_players = c[1]
        /\ num_rounds = c[2]
        /\ num_courts = c[3]
    /\ benchFile = NoFile
    /\ groupsFile = NoFile
    /\ prefinalFile = NoFile
    /\ finalFile = NoFile
    /\ pc = "main"
    /\ err = "none"
    /\ model = {}
    /\ value = NoValue
    /\ printer = [_solution_count |-> 0]
    /\ printit = FALSE
    /\ stopped = FALSE

\* main() with num_bench > 0 up to solver.Solve, the solver's solutions being
\* drawn among the shifted matrices
BenchScenarioMainBuild ==
    /\ prog = "benchAlloc" /\ pc = "main"
    /\ num_bench > 0
    /\ model' = ShiftedBenchModel
    /\ printer' = [_solution_count |-> 0, _solution_limit |-> bench_solution_limit,
                   sameplayers |-> 0]
    /\ pc' = "solving"
    /\ UNCHANGED <<config, prefinalFile, finalFile, benchFile, groupsFile, err, value, printit, stopped>>

NextBenchScenario ==
    \/ BenchScenarioMainBuild
    \/ BenchOnSolutionCallback
    \/ BenchSolveReturns

SpecBenchScenario == InitBenchScenario /\ [][NextBenchScenario]_vars

-----------------------------------------------------------------------------
(* teamAlloc.py : GroupPairer *)

\* the duo slots: pair = court*2 and pair+1 for each played court
all_duos == 0 .. (2 * num_courts - 1)

\* constraint #1 for one round; g[player, court] is games[(player, round, court)]
TeamConstraint1(g) ==
    \A court \in all_played_courts :
        SumOver([player \in all_players |-> g[<<player, court>>]], all_players)
            = num_players_per_court

\* constraint #2 for one round: the loop runs over all_bench
TeamConstraint2(g) ==
    \A court \in all_bench :
        SumOver([player \in all_players |-> g[<<player, court>>]], all_players)
            = num_bench

\* mutant: AddAtLeastOne instead of AddExactlyOne
TeamConstraint3_AtLeastOne(g) ==
    \A player \in all_players :
        SumOver([court \in all_courts |-> g[<<player, court>>]], all_courts) >= 1

\* constraint #3 for one round: AddExactlyOne over all_courts
TeamConstraint3(g) ==
    \A player \in all_players :
        SumOver([court \in all_courts |-> g[<<player, court>>]], all_courts) = 1

\* mutant: the block that pins the bench players is skipped
TeamConstraint4_Off(g, round, bench_list) ==
    TRUE

\* constraint #4 for one round: games[(bench_list[count]-1, round, benchcourt)] == 1
\* for count = round*num_bench .. round*num_bench + num_bench - 1
TeamConstraint4(g, round, bench_list) ==
    num_bench > 0 =>
        \A k \in 1 .. num_bench :
            g[<<bench_list[round * num_bench + k] - 1, benchcourt>>] = 1

\* duoVar[pair] + duoVar[pair+1] == games[(player, round, court)] for one round
TeamDuoLink(g, d) ==
    \A player \in all_players : \A court \in all_played_courts :
        d[<<player, court * 2>>] + d[<<player, court * 2 + 1>>] = g[<<player, court>>]

\* mutant: the block of constraint #6 is skipped
TeamConstraint6_Off(d) ==
    TRUE

\* constraint #6 for one round: every duo has exactly 2 players
TeamConstraint6(d) ==
    \A court \in all_played_courts :
        /\ SumOver([player \in all_players |-> d[<<player, court * 2>>]], all_players) = 2
        /\ SumOver([player \in all_players |-> d[<<player, court * 2 + 1>>]], all_players) = 2

\* mutant: sum(tmp) >= 0 instead of sum(tmp) > 0
TeamConstraint5_AtLeastZero(games) ==
    \A p1 \in all_players : \A p2 \in (p1 + 1) .. (num_players - 1) :
        LET idx == all_rounds \X all_played_courts
            tmp == [rc \in idx |->
                      IF games[<<p1, rc[1], rc[2]>>] + games[<<p2, rc[1], rc[2]>>] = 2
                      THEN 1 ELSE 0]
        IN  SumOver(tmp, idx) >= 0

\* constraint #5: every pair of players shares a played court at least once
TeamConstraint5(games) ==
    \A p1 \in all_players : \A p2 \in (p1 + 1) .. (num_players - 1) :
        LET idx == all_rounds \X all_played_courts
            tmp == [rc \in idx |->
                      IF games[<<p1, rc[1], rc[2]>>] + games[<<p2, rc[1], rc[2]>>] = 2
                      THEN 1 ELSE 0]
        IN  SumOver(tmp, idx) > 0

\* mutant: sum(tmp) <= 2 instead of sum(tmp) < 2
TeamConstraint7_AtMostTwo(duoVar) ==
    \A p1 \in all_players : \A p2 \in (p1 + 1) .. (num_players - 1) :
        LET idx == all_rounds \X all_duos
            tmp == [rd \in idx |->
                      IF duoVar[<<p1, rd[1], rd[2]>>] + duoVar[<<p2, rd[1], rd[2]>>] = 2
                      THEN 1 ELSE 0]
        IN  SumOver(tmp, idx) <= 2

\* constraint #7: a pair of players shares a duo at most once (sum < 2)
TeamConstraint7(duoVar) ==
    \A p1 \in all_players : \A p2 \in (p1 + 1) .. (num_players - 1) :
        LET idx == all_rounds \X all_duos
            tmp == [rd \in idx |->
                      IF duoVar[<<p1, rd[1], rd[2]>>] + duoVar[<<p2, rd[1], rd[2]>>] = 2
                      THEN 1 ELSE 0]
        IN  SumOver(tmp, idx) < 2

\* the values of one round's games and duoVar variables that satisfy the
\* constraints that mention that round only
TeamRoundChoices(round, bench_list) ==
    LET Games == { g \in [all_players \X all_courts -> {0, 1}] :
                     /\ TeamConstraint3(g)
                     /\ TeamConstraint1(g)
                     /\ TeamConstraint2(g)
                     /\ TeamConstraint4(g, round, bench_list) }
        Duos(g) == { d \in [all_players \X all_duos -> {0, 1}] :
                       TeamDuoLink(g, d) /\ TeamConstraint6(d) }
    IN  UNION { { <<g, d>> : d \in Duos(g) } : g \in Games }

RECURSIVE RoundSelections(_, _)
\* one choice for each of the rounds round .. num_rounds-1
RoundSelections(choices, round) ==
    IF round >= num_rounds THEN { <<>> }
    ELSE { <<c>> \o rest : c \in choices[round],
                           rest \in RoundSelections(choices, round + 1) }

\* the model built by main(): games[(p, t, c)] and duoVar[(p, t, d)]
TeamModel(bench_list) ==
    LET choices == [round \in all_rounds |-> TeamRoundChoices(round, bench_list)]
        Assignments ==
            { [games |-> [prc \in all_players \X all_rounds \X all_courts |->
                            sel[prc[2] + 1][1][<<prc[1], prc[3]>>]],
               duoVar |-> [prd \in all_players \X all_rounds \X all_duos |->
                            sel[prd[2] + 1][2][<<prd[1], prd[3]>>]]] :
                sel \in RoundSelections(choices, 0) }
    IN  { a \in Assignments : TeamConstraint5(a.games) /\ TeamConstraint7(a.duoVar) }

\* paircounts[p1][p2]: rounds and played courts shared by p1 and p2
paircounts(games, p1, p2) ==
    Cardinality({ rc \in all_rounds \X all_played_courts :
                    games[<<p1, rc[1], rc[2]>>] + games[<<p2, rc[1], rc[2]>>] = 2 })

PlayerPairs == { pp \in all_players \X all_players : pp[1] < pp[2] }

\* max(...) and min(...) over the pairs p1 < p2
TeamMaxCount(games) ==
    LET counts == { paircounts(games, pp[1], pp[2]) : pp \in PlayerPairs }
    IN  CHOOSE m \in counts : \A n \in counts : n <= m

TeamMinCount(games) ==
    LET counts == { paircounts(games, pp[1], pp[2]) : pp \in PlayerPairs }
    IN  CHOOSE m \in counts : \A n \in counts : n >= m

\* sameplayers of print_schedule: p1<p2 on court c1 in round r1 and on court c2
\* in round rn = (r1+1) mod num_rounds
TeamSamePlayers(games) ==
    Cardinality({ q \in PlayerPairs \X all_rounds \X all_played_courts \X all_played_courts :
                    LET p1 == q[1][1]
                        p2 == q[1][2]
                        r1 == q[2]
                        rn == (q[2] + 1) % num_rounds
                    IN  games[<<p1, r1, q[3]>>] + games[<<p2, r1, q[3]>>]
                        + games[<<p1, rn, q[4]>>] + games[<<p2, rn, q[4]>>] = 4 })

\* mutant: sameplayers < self._better instead of sameplayers <= self._better
TeamAccept_StrictBetter(games, p) ==
    LET spread == TeamMaxCount(games) - TeamMinCount(games)
    IN  IF spread <= p._best
        THEN LET sameplayers == TeamSamePlayers(games)
                 better1 == IF sameplayers < p._better THEN sameplayers ELSE p._better
             IN  [_best |-> spread, _better |-> better1, printit |-> sameplayers < p._better]
        ELSE [_best |-> p._best, _better |-> p._better, printit |-> FALSE]

\* print_schedule up to `if printit:` : the new _best, _better and printit
TeamAccept(games, p) ==
    LET spread == TeamMaxCount(games) - TeamMinCount(games)
    IN  IF spread <= p._best
        THEN LET sameplayers == TeamSamePlayers(games)
                 best1 == spread                       \* line 96
                 printit1 == spread < best1            \* line 97, after line 96
                 printit2 == printit1 \/ sameplayers <= p._better
                 better1 == IF sameplayers <= p._better THEN sameplayers ELSE p._better
             IN  [_best |-> best1, _better |-> better1, printit |-> printit2]
        ELSE [_best |-> p._best, _better |-> p._better, printit |-> FALSE]

\* json keys of the groups file: the court number as a string
CourtKey(court) == ToString(court)

\* mutant: the lists hold player, not player+1
write_groups_ZeroBased(duoVar) ==
    [r \in 1 .. num_rounds |->
        [k \in { CourtKey(court) : court \in all_played_courts } |->
            LET court == CHOOSE c \in all_played_courts : CourtKey(c) = k
                duo(pair) == Ascending({ player : player \in
                                { pl \in all_players : duoVar[<<pl, r - 1, pair>>] = 1 } })
            IN  duo(court * 2) \o duo(court * 2 + 1)]]

\* TeamAllocationSolutionPrinter.write_bench: per round, per court, the players
\* of duo court*2 then those of duo court*2+1, as player+1
write_groups(duoVar) ==
    [r \in 1 .. num_rounds |->
        [k \in { CourtKey(court) : court \in all_played_courts } |->
            LET court == CHOOSE c \in all_played_courts : CourtKey(c) = k
                duo(pair) == Ascending({ player + 1 : player \in
                                { pl \in all_players : duoVar[<<pl, r - 1, pair>>] = 1 } })
            IN  duo(court * 2) \o duo(court * 2 + 1)]]

team_solution_limit == 50000

\* the players listed for a round by a bench file of n entries per round
BenchSegment(list, round, n) ==
    { list[round * n + k] : k \in 1 .. n }

\* list[i] of Python for a list of n entries: a negative i counts from the end
PyIndex(i, n) == IF i < 0 THEN i + n ELSE i

\* mutant: the entry itself, not the entry - 1, is taken as the player index
read_bench_groups_NoShift(bench_list) ==
    [pr \in all_players \X all_rounds |->
        IF \E z \in 1 .. num_bench :
              PyIndex(bench_list[pr[2] * num_bench + z], num_players) = pr[1]
        THEN 1 ELSE 0]

\* bench_assignements as teamAlloc.py's main() and the validator's
\* read_bench_groups fill it: num_bench entries per round, entry - 1 the player
read_bench_groups(bench_list) ==
    [pr \in all_players \X all_rounds |->
        IF \E z \in 1 .. num_bench :
              PyIndex(bench_list[pr[2] * num_bench + z] - 1, num_players) = pr[1]
        THEN 1 ELSE 0]

\* sameplayers of the validator's benchGroup.print_bench_optimization, from
\* _bench_assignements[p][t]
print_bench_optimization(bench_assignements) ==
    Cardinality({ q \in PlayerPairs \X all_rounds \X all_rounds :
                    /\ q[2] < q[3]
                    /\ bench_assignements[<<q[1][1], q[2]>>] + bench_assignements[<<q[1][2], q[2]>>]
                       + bench_assignements[<<q[1][1], q[3]>>] + bench_assignements[<<q[1][2], q[3]>>]
                       = 4 })

\* the bench files teamAlloc.py is run on: for a step s, round r lists the
\* players r*s, r*s + 1, ... (cyclically, as player+1); the file of the largest
\* step also one entry short, one entry long, and with its second entry
\* repeating its first; and no file at all
MaxStep == 2


TeamBenchFiles ==
    IF num_bench = 0 THEN { NoFile }
    ELSE LET good == { RotationBench(s) : s \in 1 .. MaxStep }
             last == RotationBench(MaxStep)
             bad == { SubSeq(last, 1, Len(last) - 1), Append(last, 1) }
                    \cup (IF num_bench >= 2 THEN { [last EXCEPT ![2] = last[1]] } ELSE {})
         IN  { Some(f) : f \in good \cup bad } \cup { NoFile }

\* what the groups file holds when teamAlloc.py starts: nothing, or the empty
\* list of rounds
GroupsFilesBefore ==
    { NoFile, Some(<<>>) }

TeamConfigs ==
    { c \in (4 .. MaxTeamPlayers) \X (1 .. MaxRounds) \X (1 .. (MaxTeamPlayers \div 4)) :
        /\ c[1] >= 4 * c[3]
        /\ c[1] * c[2] <= MaxTeamCells }

InitTeam ==
    /\ prog = "teamAlloc"
    /\ \E c \in TeamConfigs :
        /\ num_players = c[1]
        /\ num_rounds = c[2]
        /\ num_courts = c[3]
    /\ benchFile \in TeamBenchFiles
    /\ groupsFile \in GroupsFilesBefore
    /\ prefinalFile = NoFile
    /\ finalFile = NoFile
    /\ pc = "main"
    /\ err = "none"
    /\ model = {}
    /\ value = NoValue
    /\ printer = [_solution_count |-> 0]
    /\ printit = FALSE
    /\ stopped = FALSE

\* main(), num_bench > 0: open(fname, 'r') fails
TeamMainNoFile ==
    /\ prog = "teamAlloc" /\ pc = "main"
    /\ num_bench > 0
    /\ benchFile = NoFile
    /\ pc' = "done"
    /\ err' = "FileNotFoundError"
    /\ UNCHANGED <<config, prefinalFile, finalFile, benchFile, groupsFile, model, value, printer, printit, stopped>>

\* main(), num_bench > 0: bench_list[count] runs past the end of the list
TeamMainShortFile ==
    /\ prog = "teamAlloc" /\ pc = "main"
    /\ num_bench > 0
    /\ benchFile # NoFile
    /\ Len(The(benchFile)) < num_bench * num_rounds
    /\ pc' = "done"
    /\ err' = "IndexError"
    /\ UNCHANGED <<config, prefinalFile, finalFile, benchFile, groupsFile, model, value, printer, printit, stopped>>

\* main() up to solver.Solve: the bench list, when read, holds an entry for
\* every count the loop reaches
TeamMainBuild ==
    /\ prog = "teamAlloc" /\ pc = "main"
    /\ num_bench > 0 =>
          (benchFile # NoFile /\ Len(The(benchFile)) >= num_bench * num_rounds)
    /\ model' = TeamModel(IF num_bench > 0 THEN The(benchFile) ELSE <<>>)
    /\ printer' = [_solution_count |-> 0, _solution_limit |-> team_solution_limit,
                   _best |-> num_rounds,
                   _better |-> (num_players * (num_players + 1)) \div 2]
    /\ pc' = "solving"
    /\ UNCHANGED <<config, prefinalFile, finalFile, benchFile, groupsFile, err, value, printit, stopped>>

MaxLineupSolutions == 3

\* the number of solutions a run is followed for
TeamDeliveries ==
    IF num_courts > 1 THEN MaxLineupSolutions ELSE MaxSolutions

\* mutant: the groups file is written for every delivered solution
TeamOnSolutionCallback_AlwaysWrite ==
    /\ prog = "teamAlloc" /\ pc = "solving"
    /\ ~stopped
    /\ printer._solution_count < TeamDeliveries
    /\ \E sol \in model :
        LET acc == TeamAccept(sol.games, printer)
        IN  /\ Some(sol) # value
            /\ value' = Some(sol)
            /\ printer' = [printer EXCEPT !._solution_count = @ + 1,
                                          !._best = acc._best,
                                          !._better = acc._better]
            /\ printit' = acc.printit
            /\ groupsFile' = Some(write_groups(sol.duoVar))
            /\ stopped' = (printer._solution_count + 1 >= printer._solution_limit)
    /\ UNCHANGED <<config, prefinalFile, finalFile, benchFile, pc, err, model>>

\* TeamAllocationSolutionPrinter.on_solution_callback; the solver delivers a
\* solution other than the one before
TeamOnSolutionCallback ==
    /\ prog = "teamAlloc" /\ pc = "solving"
    /\ ~stopped
    /\ printer._solution_count < TeamDeliveries
    /\ \E sol \in model :
        LET acc == TeamAccept(sol.games, printer)
        IN  /\ Some(sol) # value
            /\ value' = Some(sol)
            /\ printer' = [printer EXCEPT !._solution_count = @ + 1,
                                          !._best = acc._best,
                                          !._better = acc._better]
            /\ printit' = acc.printit
            /\ groupsFile' = IF acc.printit THEN Some(write_groups(sol.duoVar)) ELSE groupsFile
            /\ stopped' = (printer._solution_count + 1 >= printer._solution_limit)
    /\ UNCHANGED <<config, prefinalFile, finalFile, benchFile, pc, err, model>>

\* solver.Solve returns and main() prints the statistics
TeamSolveReturns ==
    /\ prog = "teamAlloc" /\ pc = "solving"
    /\ model = {} \/ printer._solution_count >= 1
    /\ pc' = "done"
    /\ UNCHANGED <<config, prefinalFile, finalFile, benchFile, groupsFile, err, model, value, printer, printit, stopped>>

NextTeam ==
    \/ TeamMainNoFile
    \/ TeamMainShortFile
    \/ TeamMainBuild
    \/ TeamOnSolutionCallback
    \/ TeamSolveReturns

SpecTeam == InitTeam /\ [][NextTeam]_vars

-----------------------------------------------------------------------------
(* teamAlloc.py on 8 players, 5 rounds, 2 courts *)

MaxLineupShift == 1

\* two schedules for 8 players on 2 courts over 5 rounds; a round is a lineup
\* of the players: the two players of duo 0, of duo 1, of duo 2 and of duo 3
ScheduleA ==
    << <<0, 1, 6, 7, 2, 3, 4, 5>>,
       <<0, 2, 1, 5, 3, 6, 4, 7>>,
       <<0, 5, 3, 7, 1, 6, 2, 4>>,
       <<0, 7, 4, 6, 1, 2, 3, 5>>,
       <<0, 3, 2, 7, 1, 4, 5, 6>> >>

ScheduleB ==
    << <<0, 1, 4, 5, 2, 3, 6, 7>>,
       <<0, 6, 3, 7, 1, 4, 2, 5>>,
       <<0, 2, 3, 4, 1, 6, 5, 7>>,
       <<0, 7, 1, 2, 3, 5, 4, 6>>,
       <<0, 5, 2, 6, 1, 3, 4, 7>> >>

\* games[(player, round, court)] of the round that plays a lineup: the players
\* it does not list are on the bench
LineupGames(lineup) ==
    [cell \in all_players \X all_courts |->
        IF cell[2] = benchcourt
        THEN (IF \E k \in 1 .. Len(lineup) : lineup[k] = cell[1] THEN 0 ELSE 1)
        ELSE (IF \E k \in 1 .. num_players_per_court :
                    lineup[num_players_per_court * cell[2] + k] = cell[1]
              THEN 1 ELSE 0)]

\* duoVar[(player, round, pair)] of the round that plays a lineup
LineupDuos(lineup) ==
    [pd \in all_players \X all_duos |->
        IF \E k \in 1 .. 2 : lineup[2 * pd[2] + k] = pd[1] THEN 1 ELSE 0]

\* the lineups a round is drawn from: those the two schedules give to this
\* round and to the rounds up to MaxLineupShift later
LineupChoices(round) ==
    { sched[((round + k) % num_rounds) + 1] :
        sched \in { ScheduleA, ScheduleB }, k \in 0 .. MaxLineupShift }

\* the values of one round's games and duoVar variables, drawn from the
\* lineups, that satisfy the constraints that mention that round only
LineupRoundChoices(round) ==
    { gd \in { <<LineupGames(l), LineupDuos(l)>> : l \in LineupChoices(round) } :
        /\ TeamConstraint3(gd[1])
        /\ TeamConstraint1(gd[1])
        /\ TeamConstraint2(gd[1])
        /\ TeamDuoLink(gd[1], gd[2])
        /\ TeamConstraint6(gd[2]) }

\* the assignments, drawn round by round from the lineups, that the model
\* built by main() admits
LineupTeamModel ==
    LET choices == [round \in all_rounds |-> LineupRoundChoices(round)]
        Assignments ==
            { [games |-> [prc \in all_players \X all_rounds \X all_courts |->
                            sel[prc[2] + 1][1][<<prc[1], prc[3]>>]],
               duoVar |-> [prd \in all_players \X all_rounds \X all_duos |->
                            sel[prd[2] + 1][2][<<prd[1], prd[3]>>]]] :
                sel \in RoundSelections(choices, 0) }
    IN  { a \in Assignments : TeamConstraint5(a.games) /\ TeamConstraint7(a.duoVar) }

InitTeamScenario ==
    /\ prog = "teamAlloc"
    /\ num_players = 8
    /\ num_rounds = 5
    /\ num_courts = 2
    /\ benchFile = NoFile
    /\ groupsFile \in GroupsFilesBefore
    /\ prefinalFile = NoFile
    /\ finalFile = NoFile
    /\ pc = "main"
    /\ err = "none"
    /\ model = {}
    /\ value = NoValue
    /\ printer = [_solution_count |-> 0]
    /\ printit = FALSE
    /\ stopped = FALSE

\* main() up to solver.Solve with nobody on the bench, the solver's solutions
\* being drawn from the lineups
TeamScenarioMainBuild ==
    /\ prog = "teamAlloc" /\ pc = "main"
    /\ num_bench = 0
    /\ model' = LineupTeamModel
    /\ printer' = [_solution_count |-> 0, _solution_limit |-> team_solution_limit,
                   _best |-> num_rounds,
                   _better |-> (num_players * (num_players + 1)) \div 2]
    /\ pc' = "solving"
    /\ UNCHANGED <<config, prefinalFile, finalFile, benchFile, groupsFile, err, value, printit, stopped>>

NextTeamScenario ==
    \/ TeamScenarioMainBuild
    \/ TeamOnSolutionCallback
    \/ TeamSolveReturns

SpecTeamScenario == InitTeamScenario /\ [][NextTeamScenario]_vars


-----------------------------------------------------------------------------
(* courtAlloc.py *)

MaxCourts == 3
MaxCourtBench == 1
MaxCourtCells == 6
MaxShift == 1

court_solution_limit == 500000

\* constraint #1 for one round: each group is assigned to exactly 1 court
CourtConstraint1(g) ==
    \A group \in all_played_courts :
        SumOver([court \in all_played_courts |-> g[<<court, group>>]], all_played_courts) = 1

\* mutant: constraint #2 is not added
CourtConstraint2_Off(g) ==
    TRUE

\* constraint #2 for one round: each court is assigned to exactly 1 group
CourtConstraint2(g) ==
    \A court \in all_played_courts :
        SumOver([group \in all_played_courts |-> g[<<court, group>>]], all_played_courts) = 1

\* the values of games[(round, court, group)] of one round that both constraints admit
CourtRoundChoices ==
    { g \in [all_played_courts \X all_played_courts -> {0, 1}] :
        CourtConstraint1(g) /\ CourtConstraint2(g) }

\* the model built by main(): games[(round, court, group)]; groupVar is fixed
\* to group_assignements and carries no freedom
CourtModel ==
    LET choices == [round \in all_rounds |-> CourtRoundChoices]
    IN  { [rcg \in all_rounds \X all_played_courts \X all_played_courts |->
              sel[rcg[1] + 1][<<rcg[2], rcg[3]>>]] :
            sel \in RoundSelections(choices, 0) }

\* bench_matrix of main(): the bench list cut into rounds of num_bench entries
bench_matrix(bench_list) ==
    [round \in all_rounds |->
        [k \in 1 .. num_bench |-> bench_list[round * num_bench + k]]]

\* group_assignements of main(): 1 where the groups file lists player+1 among
\* the first num_players_per_court members of the group
group_assignements(groups) ==
    [round \in all_rounds |->
        [group \in all_played_courts |->
            [player \in all_players |->
                IF \E member \in 1 .. num_players_per_court :
                      PyIndex(groups[round + 1][CourtKey(group)][member] - 1, num_players) = player
                THEN 1 ELSE 0]]]

\* _group_assignements of the validator's groupTeams.read_team_groups: 1 at
\* groupMembers[0]-1 .. groupMembers[3]-1
read_team_groups(groups) ==
    [round \in all_rounds |->
        [court \in all_played_courts |->
            [player \in all_players |->
                IF \E member \in 1 .. 4 :
                      PyIndex(groups[round + 1][CourtKey(court)][member] - 1, num_players) = player
                THEN 1 ELSE 0]]]

\* playersCourtCount[court][player] of print_schedule
playersCourtCount(games, ga, court, player) ==
    Cardinality({ gr \in all_played_courts \X all_rounds :
                    /\ games[<<gr[2], court, gr[1]>>] = 1
                    /\ ga[gr[2]][gr[1]][player] = 1 })

\* playersCourtDiffMax[player] of print_schedule
playersCourtDiffMax(games, ga) ==
    [player \in all_players |->
        LET counts == { playersCourtCount(games, ga, court, player) : court \in all_played_courts }
            maxCount == CHOOSE m \in counts : \A n \in counts : n <= m
            minCount == CHOOSE m \in counts : \A n \in counts : n >= m
        IN  maxCount - minCount]

\* max(playersCourtDiffMax)
CourtDiffMax(diff) ==
    CHOOSE m \in { diff[p] : p \in all_players } : \A p \in all_players : diff[p] <= m

\* playersCourtDiffMax.count(max(playersCourtDiffMax))
CourtDiffCount(diff) ==
    Cardinality({ p \in all_players : diff[p] = CourtDiffMax(diff) })

\* mutant: a lower maximum keeps the old _numPlayersWith_best
CourtAccept_KeepCount(games, p) ==
    LET diff == playersCourtDiffMax(games, p._group_assignements)
        mx == CourtDiffMax(diff)
        cnt == CourtDiffCount(diff)
        tie == p._bestCourtDiffMax = mx /\ p._numPlayersWith_best >= cnt
        better == p._bestCourtDiffMax > mx
    IN  [_bestCourtDiffMax |-> IF better THEN mx ELSE p._bestCourtDiffMax,
         _numPlayersWith_best |-> IF tie THEN cnt ELSE p._numPlayersWith_best,
         printit |-> tie \/ better]

\* print_schedule, lines 91-102: the new _bestCourtDiffMax, _numPlayersWith_best
\* and printit
CourtAccept(games, p) ==
    LET diff == playersCourtDiffMax(games, p._group_assignements)
        mx == CourtDiffMax(diff)
        cnt == CourtDiffCount(diff)
        tie == p._bestCourtDiffMax = mx /\ p._numPlayersWith_best >= cnt
        better == p._bestCourtDiffMax > mx
    IN  [_bestCourtDiffMax |-> IF better THEN mx ELSE p._bestCourtDiffMax,
         _numPlayersWith_best |-> IF tie \/ better THEN cnt ELSE p._numPlayersWith_best,
         printit |-> tie \/ better]

\* groupVar[(round, group, player)] of main(): fixed to group_assignements
groupVar(ga) ==
    [rgp \in all_rounds \X all_played_courts \X all_players |->
        ga[rgp[1]][rgp[2]][rgp[3]]]

\* groupAssigned[court][player] of print_schedule, lines 111-123: the (group,
\* round) occurrences with v1 + v2 == 2
groupAssigned(games, gv, court, player) ==
    Cardinality({ gr \in all_played_courts \X all_rounds :
                    games[<<gr[2], court, gr[1]>>] + gv[<<gr[2], gr[1], player>>] = 2 })

\* a text is the sequence of its characters
Digits == <<"0", "1", "2", "3", "4", "5", "6", "7", "8", "9">>

RECURSIVE str_int(_)
\* str(n) for n >= 0
str_int(n) ==
    IF n < 10 THEN <<Digits[n + 1]>>
    ELSE str_int(n \div 10) \o <<Digits[(n % 10) + 1]>>

Spaces(n) == [i \in 1 .. n |-> " "]

\* text.ljust(width): padded on the right, never cut
ljust(text, width) ==
    IF Len(text) >= width THEN text ELSE text \o Spaces(width - Len(text))

\* the format spec {n:4} of an int: padded on the left, never cut
rjust(text, width) ==
    IF Len(text) >= width THEN text ELSE Spaces(width - Len(text)) \o text

RECURSIVE join(_, _)
\* sep.join(texts)
join(sep, texts) ==
    IF texts = <<>> THEN <<>>
    ELSE IF Len(texts) = 1 THEN texts[1]
    ELSE LET half == Len(texts) \div 2
         IN  join(sep, SubSeq(texts, 1, half)) \o sep
                \o join(sep, SubSeq(texts, half + 1, Len(texts)))

\* f'{v}' of a list of ints
str_list(v) ==
    <<"[">> \o join(<<",", " ">>, [i \in 1 .. Len(v) |-> str_int(v[i])]) \o <<"]">>

\* playersAssigned of print_schedule after the loops of one round: for each
\* court the members of the group that games puts there (constraint #2 gives
\* every court a group in every round, so the keys stay in court order)
playersAssigned(games, groups, round) ==
    [court \in all_played_courts |->
        groups[round + 1][CourtKey(CHOOSE group \in all_played_courts :
                                      games[<<round, court, group>>] = 1)]]

\* the line print_schedule prints for a round, lines 140-142: print() puts one
\* space between its three arguments
round_line(games, groups, bench_rounds, round) ==
    LET assigned == playersAssigned(games, groups, round)
        str_games == [c \in 1 .. num_courts |-> ljust(str_list(assigned[c - 1]), 18)]
        str_bench == ljust(<<" ">> \o str_list(bench_rounds[round]), 30)
        head == <<" ", "R", "o", "u", "n", "d", " ">> \o rjust(str_int(round + 1), 4)
                    \o <<":", " ", " ">>
    IN  head \o <<" ">> \o join(<<" ", " ">>, str_games) \o <<" ">> \o str_bench

\* the round lines of one report
report_lines(games, p) ==
    [r \in 1 .. num_rounds |-> round_line(games, p._groups, p._bench_matrix, r - 1)]

\* the bench files courtAlloc.py is run on: the rotation of step 1, and no file
CourtBenchFiles ==
    IF num_bench = 0 THEN { NoFile }
    ELSE { Some(RotationBench(1)), NoFile }

\* a groups file for a bench list: in round r the players off the bench, in
\* increasing order and rotated by s*r places, are cut into groups of four
RotationGroups(bench_list, s) ==
    [r \in 1 .. num_rounds |->
        LET benched == IF num_bench = 0 THEN {}
                       ELSE BenchSegment(bench_list, r - 1, num_bench)
            playing == Ascending((1 .. num_players) \ benched)
        IN  [k \in { CourtKey(group) : group \in all_played_courts } |->
                LET group == CHOOSE g \in all_played_courts : CourtKey(g) = k
                IN  [member \in 1 .. num_players_per_court |->
                        playing[((group * num_players_per_court + (member - 1) + s * (r - 1))
                                    % Len(playing)) + 1]]]]

\* the groups files courtAlloc.py is run on: the rotations, the first of them
\* without its last round, and no file
CourtGroupsFiles ==
    LET bench_list == IF num_bench = 0 THEN <<>> ELSE RotationBench(1)
        good == { RotationGroups(bench_list, s) : s \in 0 .. MaxShift }
        first == RotationGroups(bench_list, 0)
    IN  { Some(f) : f \in good \cup { SubSeq(first, 1, Len(first) - 1) } } \cup { NoFile }

CourtConfigs ==
    { c \in (4 .. (4 * MaxCourts + MaxCourtBench)) \X (1 .. MaxCourtCells) \X (1 .. MaxCourts) :
        /\ c[1] >= 4 * c[3]
        /\ c[1] - 4 * c[3] <= MaxCourtBench
        /\ c[2] * c[3] <= MaxCourtCells }

InitCourt ==
    /\ prog = "courtAlloc"
    /\ \E c \in CourtConfigs :
        /\ num_players = c[1]
        /\ num_rounds = c[2]
        /\ num_courts = c[3]
    /\ benchFile \in CourtBenchFiles
    /\ groupsFile \in CourtGroupsFiles
    /\ prefinalFile = NoFile
    /\ finalFile = NoFile
    /\ pc = "main"
    /\ err = "none"
    /\ model = {}
    /\ value = NoValue
    /\ printer = [_solution_count |-> 0]
    /\ printit = FALSE
    /\ stopped = FALSE

\* the bench list is there for main() to cut into bench_matrix
CourtBenchReadable ==
    num_bench > 0 => (benchFile # NoFile /\ Len(The(benchFile)) >= num_bench * num_rounds)

\* main(), num_bench > 0: open(fname, 'r') fails
CourtMainNoBenchFile ==
    /\ prog = "courtAlloc" /\ pc = "main"
    /\ num_bench > 0
    /\ benchFile = NoFile
    /\ pc' = "done"
    /\ err' = "FileNotFoundError"
    /\ UNCHANGED <<config, prefinalFile, finalFile, benchFile, groupsFile, model, value, printer, printit, stopped>>

\* main(): open(f'groups_{fname}', 'r') fails
CourtMainNoGroupsFile ==
    /\ prog = "courtAlloc" /\ pc = "main"
    /\ CourtBenchReadable
    /\ groupsFile = NoFile
    /\ pc' = "done"
    /\ err' = "FileNotFoundError"
    /\ UNCHANGED <<config, prefinalFile, finalFile, benchFile, groupsFile, model, value, printer, printit, stopped>>

\* main(): groups[round] runs past the end of the list
CourtMainShortGroups ==
    /\ prog = "courtAlloc" /\ pc = "main"
    /\ CourtBenchReadable
    /\ groupsFile # NoFile
    /\ Len(The(groupsFile)) < num_rounds
    /\ pc' = "done"
    /\ err' = "IndexError"
    /\ UNCHANGED <<config, prefinalFile, finalFile, benchFile, groupsFile, model, value, printer, printit, stopped>>

\* main() up to solver.Solve
CourtMainBuild ==
    /\ prog = "courtAlloc" /\ pc = "main"
    /\ CourtBenchReadable
    /\ groupsFile # NoFile
    /\ Len(The(groupsFile)) >= num_rounds
    /\ model' = CourtModel
    /\ printer' = [_solution_count |-> 0, _solution_limit |-> court_solution_limit,
                   _bestCourtDiffMax |-> num_rounds,
                   _numPlayersWith_best |-> num_players,
                   _group_assignements |-> group_assignements(The(groupsFile)),
                   _groups |-> The(groupsFile),
                   _bench_matrix |-> bench_matrix(IF num_bench > 0 THEN The(benchFile) ELSE <<>>)]
    /\ pc' = "solving"
    /\ UNCHANGED <<config, prefinalFile, finalFile, benchFile, groupsFile, err, value, printit, stopped>>

\* PlayersPartialSolutionPrinter.on_solution_callback; the round lines of the
\* last report are what the operator keeps as prefinal_<fname>
CourtOnSolutionCallback ==
    /\ prog = "courtAlloc" /\ pc = "solving"
    /\ ~stopped
    /\ printer._solution_count < MaxSolutions
    /\ \E sol \in model :
        LET acc == CourtAccept(sol, printer)
        IN  /\ Some(sol) # value
            /\ value' = Some(sol)
            /\ printer' = [printer EXCEPT !._solution_count = @ + 1,
                                          !._bestCourtDiffMax = acc._bestCourtDiffMax,
                                          !._numPlayersWith_best = acc._numPlayersWith_best]
            /\ printit' = acc.printit
            /\ prefinalFile' = IF acc.printit THEN Some(report_lines(sol, printer))
                                ELSE prefinalFile
            /\ stopped' = (printer._solution_count + 1 >= printer._solution_limit)
    /\ UNCHANGED <<config, finalFile, benchFile, groupsFile, pc, err, model>>

\* solver.Solve returns and main() prints the statistics
CourtSolveReturns ==
    /\ prog = "courtAlloc" /\ pc = "solving"
    /\ model = {} \/ printer._solution_count >= 1
    /\ pc' = "done"
    /\ UNCHANGED <<config, prefinalFile, finalFile, benchFile, groupsFile, err, model, value, printer, printit, stopped>>

NextCourt ==
    \/ CourtMainNoBenchFile
    \/ CourtMainNoGroupsFile
    \/ CourtMainShortGroups
    \/ CourtMainBuild
    \/ CourtOnSolutionCallback
    \/ CourtSolveReturns

SpecCourt == InitCourt /\ [][NextCourt]_vars

-----------------------------------------------------------------------------
(* validate_sat.py, run on the report of courtAlloc.py *)

\* a roster wide enough for eight ids of three digits
WideRoster == 108

\* text[a:b] of Python for 0 <= a <= b: cut at the end of the text
slice(text, a, b) ==
    IF a >= Len(text) THEN <<>>
    ELSE SubSeq(text, a + 1, IF b < Len(text) THEN b ELSE Len(text))

\* the text without the blanks at both ends
strip(text) ==
    LET idx == { i \in 1 .. Len(text) : text[i] # " " }
    IN  IF idx = {} THEN <<>>
        ELSE SubSeq(text, CHOOSE i \in idx : \A j \in idx : i <= j,
                          CHOOSE i \in idx : \A j \in idx : i >= j)

\* a JSON integer >= 0: digits, with no leading zero
IsJsonInt(text) ==
    /\ Len(text) >= 1
    /\ \A i \in 1 .. Len(text) : \E d \in 1 .. 10 : Digits[d] = text[i]
    /\ Len(text) > 1 => text[1] # "0"

RECURSIVE int_of(_)
\* the value of a text of digits
int_of(text) ==
    IF Len(text) = 0 THEN 0
    ELSE int_of(SubSeq(text, 1, Len(text) - 1)) * 10
            + (CHOOSE d \in 0 .. 9 : Digits[d + 1] = text[Len(text)])

\* json.loads of a text of digits, brackets, commas and blanks: the list of
\* ints (or the int) it denotes, or nothing when it raises JSONDecodeError
json_loads(text) ==
    LET t == strip(text)
    IN  IF IsJsonInt(t) THEN Some(int_of(t))
        ELSE IF ~(Len(t) >= 2 /\ t[1] = "[" /\ t[Len(t)] = "]") THEN NoValue
        ELSE LET inner == SubSeq(t, 2, Len(t) - 1)
                 commas == { i \in 1 .. Len(inner) : inner[i] = "," }
                 n == Cardinality(commas) + 1
                 cut(k) == IF k = 0 THEN 0
                           ELSE IF k = n THEN Len(inner) + 1
                           ELSE CHOOSE i \in commas :
                                    Cardinality({ j \in commas : j < i }) = k - 1
                 item(k) == strip(SubSeq(inner, cut(k - 1) + 1, cut(k) - 1))
             IN  IF strip(inner) = <<>> THEN Some(<<>>)
                 ELSE IF \A k \in 1 .. n : IsJsonInt(item(k))
                      THEN Some([k \in 1 .. n |-> int_of(item(k))])
                      ELSE NoValue

\* main(), lines 308-312: the slice of a line for a court, and for the bench
\* under the key num_courts
line_field(line, court) ==
    IF court < num_courts
    THEN slice(line, 15 + (court * 20), 15 + (court * 20) + 20)
    ELSE slice(line, 15 + (num_courts * 20), Len(line))

\* every json.loads of main() returns
prefinal_decodes(lines) ==
    \A i \in 1 .. Len(lines) : \A court \in 0 .. num_courts :
        json_loads(line_field(lines[i], court)) # NoValue

\* groups of main(): one mapping per line, from the keys "0" .. "num_courts"
prefinal_groups(lines) ==
    [i \in 1 .. Len(lines) |->
        [k \in { CourtKey(court) : court \in 0 .. num_courts } |->
            LET court == CHOOSE c \in 0 .. num_courts : CourtKey(c) = k
            IN  The(json_loads(line_field(lines[i], court)))]]

\* mutant: the player index, not the player id, is looked up in the list
final_playersCourtCount_Index(final, court, player) ==
    Cardinality({ round \in all_rounds :
                    \E m \in 1 .. Len(final[round + 1][CourtKey(court)]) :
                        final[round + 1][CourtKey(court)][m] = player })

\* playersCourtCount[court][player] of finalCourts.print_final_courts
final_playersCourtCount(final, court, player) ==
    Cardinality({ round \in all_rounds :
                    \E m \in 1 .. Len(final[round + 1][CourtKey(court)]) :
                        final[round + 1][CourtKey(court)][m] = player + 1 })

\* playersCourtDiffMax of finalCourts.print_final_courts
final_playersCourtDiffMax(final) ==
    [player \in all_players |->
        LET counts == { final_playersCourtCount(final, court, player) :
                          court \in all_played_courts }
            maxCount == CHOOSE m \in counts : \A n \in counts : n <= m
            minCount == CHOOSE m \in counts : \A n \in counts : n >= m
        IN  maxCount - minCount]

\* the configurations on which the report is printed and parsed
FinalConfigs ==
    { c \in CourtConfigs : c[3] = 2 /\ c[2] <= 2 } \cup { <<WideRoster, 1, 2>> }

InitFinal ==
    /\ prog = "courtAlloc"
    /\ \E c \in FinalConfigs :
        /\ num_players = c[1]
        /\ num_rounds = c[2]
        /\ num_courts = c[3]
    /\ benchFile \in CourtBenchFiles
    /\ groupsFile \in CourtGroupsFiles
    /\ prefinalFile = NoFile
    /\ finalFile = NoFile
    /\ pc = "main"
    /\ err = "none"
    /\ model = {}
    /\ value = NoValue
    /\ printer = [_solution_count |-> 0]
    /\ printit = FALSE
    /\ stopped = FALSE

\* validate_sat.py after courtAlloc.py: open(f'prefinal_{fname}', 'r') fails
ValidateMainNoFile ==
    /\ prog = "courtAlloc" /\ pc = "done"
    /\ prefinalFile = NoFile
    /\ prog' = "validate_sat"
    /\ err' = "FileNotFoundError"
    /\ UNCHANGED <<num_players, num_rounds, num_courts, benchFile, groupsFile,
                   prefinalFile, finalFile, pc, model, value, printer, printit, stopped>>

\* validate_sat.py after courtAlloc.py: a json.loads of lines 310-312 raises
ValidateMainDecodeError ==
    /\ prog = "courtAlloc" /\ pc = "done"
    /\ prefinalFile # NoFile
    /\ ~prefinal_decodes(The(prefinalFile))
    /\ prog' = "validate_sat"
    /\ err' = "JSONDecodeError"
    /\ UNCHANGED <<num_players, num_rounds, num_courts, benchFile, groupsFile,
                   prefinalFile, finalFile, pc, model, value, printer, printit, stopped>>

\* validate_sat.py after courtAlloc.py: main() parses every line and writes
\* final_<fname>
ValidateMain ==
    /\ prog = "courtAlloc" /\ pc = "done"
    /\ prefinalFile # NoFile
    /\ prefinal_decodes(The(prefinalFile))
    /\ prog' = "validate_sat"
    /\ finalFile' = Some(prefinal_groups(The(prefinalFile)))
    /\ UNCHANGED <<num_players, num_rounds, num_courts, benchFile, groupsFile,
                   prefinalFile, pc, err, model, value, printer, printit, stopped>>

NextFinal ==
    \/ NextCourt
    \/ ValidateMainNoFile
    \/ ValidateMainDecodeError
    \/ ValidateMain

SpecFinal == InitFinal /\ [][NextFinal]_vars

-----------------------------------------------------------------------------
(* The three stages: the operator runs one of the scripts *)

InitStages ==
    \/ InitBench
    \/ InitTeam
    \/ InitCourt

NextStages ==
    \/ NextBench
    \/ NextTeam
    \/ NextCourt

SpecStages == InitStages /\ [][NextStages]_vars


-----------------------------------------------------------------------------
(* Properties of benchAlloc.py *)

\* main() reached solver.Solve: the model is the one main() built
ModelBuilt == pc # "main" /\ err = "none"

\* C1: in every assignment the BenchPlanner model admits, and in every bench
\* file written, each round has exactly num_players - 4*num_courts players
\* on the bench
C1_BenchRosterPerRound ==
    (prog = "benchAlloc" /\ ModelBuilt) =>
        LET n == num_players - 4 * num_courts
        IN  /\ \A bench \in model : \A round \in all_rounds :
                Cardinality({ p \in all_players : bench[<<p, round>>] = 1 }) = n
            /\ benchFile # NoFile =>
                /\ Len(The(benchFile)) = n * num_rounds
                /\ \A round \in all_rounds :
                     /\ Cardinality(BenchSegment(The(benchFile), round, n)) = n
                     /\ BenchSegment(The(benchFile), round, n) \subseteq 1 .. num_players

\* a bench file with several players per round was written
C1_Witness ==
    /\ prog = "benchAlloc" /\ ModelBuilt
    /\ benchFile # NoFile
    /\ num_bench >= 2 /\ num_rounds >= 2

\* the rounds in which bench seats player p
BenchTotal(bench, p) ==
    Cardinality({ r \in all_rounds : bench[<<p, r>>] = 1 })

\* C2: in every admitted assignment each player's number of benched rounds t
\* satisfies floor(x) <= t <= ceil(x) for x = num_rounds*num_bench/num_players,
\* that is x < t + 1 and t - 1 < x
C2_BenchTotalsBalanced ==
    (prog = "benchAlloc" /\ ModelBuilt) =>
        LET n == num_players - 4 * num_courts
        IN  \A bench \in model : \A p \in all_players :
                /\ num_rounds * n < (BenchTotal(bench, p) + 1) * num_players
                /\ (BenchTotal(bench, p) - 1) * num_players < num_rounds * n

\* a delivered solution in which one player sits out more often than another
C2_Witness ==
    /\ prog = "benchAlloc" /\ value # NoValue
    /\ \E p \in all_players : \E q \in all_players :
          BenchTotal(The(value), p) < BenchTotal(The(value), q)

\* player p is on the bench in all of the rounds r, r+1, ..., r+len-1 (mod num_rounds)
FullWindow(bench, p, r, len) ==
    \A k \in 0 .. (len - 1) : bench[<<p, (r + k) % num_rounds>>] = 1

\* C3 as stated: in every admitted assignment no window of distance_on_bench
\* rounds is all bench rounds of one player, also for distance_on_bench 0 or 1
C3_NoFullWindow ==
    (prog = "benchAlloc" /\ ModelBuilt) =>
        LET d == ceil_div(num_players, num_players - 4 * num_courts) - 2
        IN  \A bench \in model : \A p \in all_players : \A r \in all_rounds :
                ~FullWindow(bench, p, r, d)

\* C3 amended: the same, for the configurations with distance_on_bench >= 2
C3_NoFullWindowFrom2 ==
    (prog = "benchAlloc" /\ ModelBuilt) =>
        LET d == ceil_div(num_players, num_players - 4 * num_courts) - 2
        IN  d >= 2 =>
              \A bench \in model : \A p \in all_players : \A r \in all_rounds :
                  ~FullWindow(bench, p, r, d)

\* a solution was delivered in a configuration with distance_on_bench >= 2
C3_Witness ==
    /\ prog = "benchAlloc" /\ value # NoValue
    /\ distance_on_bench >= 2
    /\ \E p \in all_players : BenchTotal(The(value), p) >= 1

\* C9: with num_bench == 0 benchAlloc.py ends without an error, without a model
\* and without writing the bench file
C9_NoBenchSkipsStage ==
    (prog = "benchAlloc" /\ num_bench = 0 /\ pc = "done") =>
        /\ err = "none"
        /\ model = {}
        /\ benchFile = NoFile

-----------------------------------------------------------------------------
(* Properties of teamAlloc.py *)

\* the players of a played court, or of the bench slot, in one round
OnCourt(games, round, court) ==
    { p \in all_players : games[<<p, round, court>>] = 1 }

Partnered(duoVar, p1, p2) ==
    { rd \in all_rounds \X (0 .. (2 * num_courts - 1)) :
        duoVar[<<p1, rd[1], rd[2]>>] = 1 /\ duoVar[<<p2, rd[1], rd[2]>>] = 1 }

\* C5: in every admitted assignment every pair of players shares a duo in at
\* most one (round, duo) occurrence
C5_PartnersAtMostOnce ==
    (prog = "teamAlloc" /\ ModelBuilt) =>
        \A a \in model : \A p1 \in all_players : \A p2 \in all_players :
            p1 < p2 => Cardinality(Partnered(a.duoVar, p1, p2)) <= 1

\* a solution over several rounds was delivered in which some pair is partnered
C5_Witness ==
    /\ prog = "teamAlloc" /\ value # NoValue
    /\ num_rounds >= 3
    /\ \E p1 \in all_players : \E p2 \in all_players :
          p1 < p2 /\ Cardinality(Partnered(The(value).duoVar, p1, p2)) = 1

\* C6: in every admitted assignment every pair of players is on the same
\* played court in some round; where that cannot be (a single round with a
\* player on the bench) the model admits nothing
C6_EveryPairMeets ==
    (prog = "teamAlloc" /\ ModelBuilt) =>
        /\ \A a \in model : \A p1 \in all_players : \A p2 \in all_players :
              p1 < p2 =>
                \E round \in all_rounds : \E court \in 0 .. (num_courts - 1) :
                    {p1, p2} \subseteq OnCourt(a.games, round, court)
        /\ (num_rounds = 1 /\ num_players > 4 * num_courts) => model = {}

\* a solution was delivered in a configuration where players sit out
C6_Witness ==
    /\ prog = "teamAlloc" /\ value # NoValue
    /\ num_bench > 0
    /\ \E p \in all_players : \E round \in all_rounds :
          p \in OnCourt(The(value).games, round, num_courts)

\* the bench file lists n distinct player ids for each round
BenchFileListsRounds(n) ==
    /\ benchFile # NoFile
    /\ Len(The(benchFile)) >= n * num_rounds
    /\ \A round \in all_rounds :
          /\ BenchSegment(The(benchFile), round, n) \subseteq 1 .. num_players
          /\ Cardinality(BenchSegment(The(benchFile), round, n)) = n

\* C7: given a bench file that lists num_bench distinct players per round, in
\* every admitted assignment the bench slot of round r holds exactly the
\* players listed for round r, num_bench of them
C7_BenchSlotIsBenchFile ==
    (prog = "teamAlloc" /\ ModelBuilt /\ num_players > 4 * num_courts
       /\ BenchFileListsRounds(num_players - 4 * num_courts)) =>
        LET n == num_players - 4 * num_courts
        IN  \A a \in model : \A round \in all_rounds :
              /\ { p + 1 : p \in OnCourt(a.games, round, num_courts) }
                    = BenchSegment(The(benchFile), round, n)
              /\ Cardinality(OnCourt(a.games, round, num_courts)) = n

\* a solution was delivered for a bench file that lists num_bench players per round
C7_Witness ==
    /\ prog = "teamAlloc" /\ value # NoValue
    /\ num_bench > 0
    /\ BenchFileListsRounds(num_bench)

\* the bench file's count per round does not match num_bench: it is shorter or
\* longer than num_bench*num_rounds, or a round's segment repeats a player
BenchFileInconsistent ==
    /\ benchFile # NoFile
    /\ \/ Len(The(benchFile)) # num_bench * num_rounds
       \/ \E round \in all_rounds :
             Cardinality(BenchSegment(The(benchFile), round, num_bench)) < num_bench

\* C10: on a bench file inconsistent with num_bench, teamAlloc.py ends with an
\* error before the solver is invoked
C10_InconsistentBenchFileRejected ==
    (prog = "teamAlloc" /\ num_bench > 0 /\ pc # "main" /\ BenchFileInconsistent) =>
        (pc = "done" /\ err # "none" /\ model = {} /\ printer._solution_count = 0)

-----------------------------------------------------------------------------
(* Properties of courtAlloc.py *)

\* C8: in every assignment the CourtAssigner model admits, games restricted to
\* a round is a one-to-one correspondence between groups and courts: every
\* group has exactly one court and every court has exactly one group
C8_GamesIsBijection ==
    (prog = "courtAlloc" /\ ModelBuilt) =>
        \A a \in model : \A round \in all_rounds :
            /\ \A group \in all_played_courts :
                 Cardinality({ court \in all_played_courts : a[<<round, court, group>>] = 1 }) = 1
            /\ \A court \in all_played_courts :
                 Cardinality({ group \in all_played_courts : a[<<round, court, group>>] = 1 }) = 1

\* with three courts, a delivered solution that moves a group off the court
\* of its own number
C8_Witness ==
    /\ prog = "courtAlloc" /\ value # NoValue
    /\ num_courts = 3
    /\ \E round \in all_rounds : \E group \in all_played_courts :
          The(value)[<<round, group, group>>] = 0

-----------------------------------------------------------------------------
(* Properties of benchAlloc.py on 14 players, 6 rounds, 3 courts *)

\* the rounds in which a row seats its player on the bench
RowBenchRounds(row) == { r \in all_rounds : row[r] = 1 }

\* no two bench rounds of the row are k rounds apart, cyclically, for k in 1 .. d
RowSpaced(row, d) ==
    \A r \in RowBenchRounds(row) : \A k \in 1 .. d :
        row[(r + k) % num_rounds] = 0

\* C11 as stated: for 14 players, 6 rounds and 3 courts, num_bench = 2,
\* min_bench = 1, max_bench = 2, distance_on_bench = 5, and every row the
\* constraints leave to a player has 1 or 2 bench rounds, none of them within
\* 5 rounds of another
C11_ScenarioAsStated ==
    (prog = "benchAlloc" /\ num_players = 14 /\ num_rounds = 6 /\ num_courts = 3) =>
        /\ num_bench = 2 /\ min_bench = 1 /\ max_bench = 2 /\ distance_on_bench = 5
        /\ \A row \in [all_rounds -> {0, 1}] :
              BenchRowAdmitted(row) =>
                /\ Cardinality(RowBenchRounds(row)) \in 1 .. 2
                /\ RowSpaced(row, 5)

\* C11 amended: for 14 players, 6 rounds and 3 courts, num_bench = 2,
\* min_bench = 0, max_bench = 1, distance_on_bench = 5; every row that
\* constraints #2 and #3 leave to a player has 0 or 1 bench rounds and no two
\* bench rounds within 5 rounds of each other, and every player's row of every
\* admitted assignment is such a row
C11_ScenarioParameters ==
    (prog = "benchAlloc" /\ num_players = 14 /\ num_rounds = 6 /\ num_courts = 3) =>
        /\ num_bench = 2 /\ min_bench = 0 /\ max_bench = 1 /\ distance_on_bench = 5
        /\ \A row \in [all_rounds -> {0, 1}] :
              BenchRowAdmitted(row) =>
                /\ Cardinality(RowBenchRounds(row)) \in 0 .. 1
                /\ RowSpaced(row, 5)
        /\ ModelBuilt =>
              \A bench \in model : \A p \in all_players :
                  BenchRowAdmitted(BenchRow(bench, p))

\* a solution for 14 players, 6 rounds, 3 courts was delivered: twelve players
\* sit out once and two never do
C11_Witness ==
    /\ prog = "benchAlloc" /\ value # NoValue
    /\ num_players = 14 /\ num_rounds = 6 /\ num_courts = 3
    /\ Cardinality({ p \in all_players :
                        Cardinality(RowBenchRounds(BenchRow(The(value), p))) = 1 }) = 12
    /\ Cardinality({ p \in all_players :
                        Cardinality(RowBenchRounds(BenchRow(The(value), p))) = 0 }) = 2

-----------------------------------------------------------------------------
(* Properties of the callbacks *)

\* a step of teamAlloc.py's on_solution_callback
TeamCallbackStep ==
    /\ prog = "teamAlloc" /\ pc = "solving" /\ pc' = "solving"
    /\ printer'._solution_count = printer._solution_count + 1

\* maxCount - minCount of print_schedule
TeamSpread(games) == TeamMaxCount(games) - TeamMinCount(games)

\* games[(player, round, court)] on the played courts as a groups file gives it
GroupsGames(groups) ==
    [prc \in all_players \X all_rounds \X all_played_courts |->
        group_assignements(groups)[prc[2]][prc[3]][prc[1]]]

\* the groups file holds a schedule of this run's rounds
GroupsFileWritten ==
    groupsFile # NoFile /\ Len(The(groupsFile)) = num_rounds

\* the callback emits the delivered solution exactly when its spread is at
\* most _best and its repeat count is at most _better; an emitted solution
\* replaces the groups file and a rejected one leaves the file alone
TeamEmitsOnThresholds ==
    LET sol == The(value')
    IN  /\ printit' <=> (/\ TeamSpread(sol.games) <= printer._best
                         /\ TeamSamePlayers(sol.games) <= printer._better)
        /\ printit' => groupsFile' = Some(write_groups(sol.duoVar))
        /\ ~printit' => groupsFile' = groupsFile

\* a delivered solution, other than the one in the groups file, that has the
\* spread and the repeat count of the one in the groups file is emitted
TeamEmitsOnTieWithFile ==
    LET sol == The(value')
        incumbent == GroupsGames(The(groupsFile))
    IN  (/\ GroupsFileWritten
         /\ Some(write_groups(sol.duoVar)) # groupsFile
         /\ TeamSpread(sol.games) = TeamSpread(incumbent)
         /\ TeamSamePlayers(sol.games) = TeamSamePlayers(incumbent))
        => (printit' /\ groupsFile' = Some(write_groups(sol.duoVar)))

CourtCallbackStep ==
    /\ prog = "courtAlloc" /\ pc = "solving" /\ pc' = "solving"
    /\ printer'._solution_count = printer._solution_count + 1

\* C13: a solution delivered to courtAlloc.py's callback after the first is
\* reported only if it strictly improves on the incumbent: its maximum court
\* spread is below _bestCourtDiffMax, or equal to it with fewer players at the
\* maximum than _numPlayersWith_best
C13_OnlyStrictImprovementReported ==
    [][(CourtCallbackStep /\ printer._solution_count >= 1 /\ printit') =>
          LET diff == playersCourtDiffMax(The(value'), printer._group_assignements)
          IN  \/ CourtDiffMax(diff) < printer._bestCourtDiffMax
              \/ /\ CourtDiffMax(diff) = printer._bestCourtDiffMax
                 /\ CourtDiffCount(diff) < printer._numPlayersWith_best]_vars

\* a step of benchAlloc.py's on_solution_callback
BenchCallbackStep ==
    /\ prog = "benchAlloc" /\ pc = "solving" /\ pc' = "solving"
    /\ printer'._solution_count = printer._solution_count + 1

\* C14: after every invocation of benchAlloc.py's callback the bench file
\* holds write_bench of the solution delivered to that invocation, whatever
\* its count of repeated pairs and whatever the file held before
C14_BenchFileIsDeliveredSolution ==
    [][BenchCallbackStep => benchFile' = Some(write_bench(The(value')))]_vars

\* a second solution, with pairs of players that sit out together twice, was
\* delivered and is the content of the bench file
C14_Witness ==
    /\ prog = "benchAlloc" /\ value # NoValue
    /\ printer._solution_count = 2
    /\ printer.sameplayers > 0
    /\ benchFile = Some(write_bench(The(value)))

\* the solver delivers a solution to the callback of the running script
DeliveryStep ==
    pc = "solving" /\ pc' = "solving" /\ value' # value

\* C15: the count that the callback compares with its solution_limit before
\* it requests StopSearch is the number of emitted solutions: a delivered
\* solution that the acceptance policy rejects leaves it as it was
C15_RejectedNotCounted ==
    [][(DeliveryStep /\ ~printit') =>
          printer'._solution_count = printer._solution_count]_vars

-----------------------------------------------------------------------------
(* Properties of the interchange files *)

\* C16: for every bench matrix the benchAlloc.py model admits, write_bench
\* gives a list of num_bench*num_rounds ids in 1 .. num_players, the entries
\* of round r at positions r*num_bench + 1 .. (r+1)*num_bench being the players
\* on the bench in round r, and read_bench_groups of that list is the matrix
C16_BenchRoundTrip ==
    (prog = "benchAlloc" /\ ModelBuilt) =>
        \A bench \in model :
            LET list == write_bench(bench)
            IN  /\ Len(list) = num_bench * num_rounds
                /\ \A i \in 1 .. Len(list) : list[i] \in 1 .. num_players
                /\ \A round \in all_rounds :
                      BenchSegment(list, round, num_bench)
                          = { p + 1 : p \in { q \in all_players : bench[<<q, round>>] = 1 } }
                /\ read_bench_groups(list) = bench

\* a bench file with several players per round and several rounds was written
\* and reads back as the delivered solution
C16_Witness ==
    /\ prog = "benchAlloc" /\ value # NoValue
    /\ num_bench >= 2 /\ num_rounds >= 2
    /\ read_bench_groups(The(benchFile)) = The(value)

\* the groups file is a list of num_rounds mappings from the keys "0" ..
\* "num_courts-1" to lists of 4 distinct ids in 1 .. num_players
GroupsWellFormed(groups) ==
    /\ Len(groups) = num_rounds
    /\ \A r \in 1 .. num_rounds :
          /\ DOMAIN groups[r] = { ToString(court) : court \in 0 .. (num_courts - 1) }
          /\ \A k \in DOMAIN groups[r] :
                /\ Len(groups[r][k]) = 4
                /\ \A i \in 1 .. 4 : groups[r][k][i] \in 1 .. num_players
                /\ Cardinality({ groups[r][k][i] : i \in 1 .. 4 }) = 4

\* both readers give group_assignements[round][court][player] equal to
\* games[(player, round, court)] on the played courts
GroupsReadBack(a, groups) ==
    \A round \in all_rounds : \A court \in all_played_courts : \A player \in all_players :
        /\ group_assignements(groups)[round][court][player] = a.games[<<player, round, court>>]
        /\ read_team_groups(groups)[round][court][player] = a.games[<<player, round, court>>]

\* the file keeps the duos by position: members 1, 2 of court c are duo 2c and
\* members 3, 4 are duo 2c+1
GroupsKeepDuos(a, groups) ==
    \A round \in all_rounds : \A slot \in all_duos : \A player \in all_players :
        a.duoVar[<<player, round, slot>>] = 1 <=>
            \E i \in 1 .. 2 :
                groups[round + 1][ToString(slot \div 2)][2 * (slot % 2) + i] = player + 1

\* C17 as stated: what the readers rebuild from the groups file of the
\* delivered solution gives back its duo matrix: no admitted assignment with
\* another duo matrix reads back the same
C17_ReadersRebuildDuos ==
    (prog = "teamAlloc" /\ value # NoValue) =>
        \A b \in model :
            group_assignements(write_groups(b.duoVar))
                = group_assignements(write_groups(The(value).duoVar))
            => b.duoVar = The(value).duoVar

\* C17 amended: for every assignment the teamAlloc.py model admits, the groups
\* file written has num_rounds elements with keys "0" .. "num_courts-1" and
\* lists of 4 distinct 1-based ids, both readers rebuild group_assignements
\* equal to games on the played courts, and the duo matrix is kept by the
\* order of the ids in the file
C17_GroupsRoundTrip ==
    (prog = "teamAlloc" /\ ModelBuilt) =>
        \A a \in model :
            LET groups == write_groups(a.duoVar)
            IN  /\ GroupsWellFormed(groups)
                /\ GroupsReadBack(a, groups)
                /\ GroupsKeepDuos(a, groups)

\* a groups file was written with a player on the bench and reads back as the
\* games of the emitted solution
C17_Witness ==
    /\ prog = "teamAlloc" /\ value # NoValue /\ printit
    /\ num_bench > 0
    /\ groupsFile = Some(write_groups(The(value).duoVar))
    /\ GroupsReadBack(The(value), The(groupsFile))

-----------------------------------------------------------------------------
(* Properties of the bench spacing *)

\* the rounds r, r+1, ..., r+len-1 (mod num_rounds) of the row are all bench rounds
RowFullWindow(row, r, len) ==
    \A k \in 0 .. (len - 1) : row[(r + k) % num_rounds] = 1

\* every admitted assignment keeps distance_on_bench rounds after each bench
\* round of a player free of that player
AdmittedAreSpaced ==
    \A bench \in model : \A p \in all_players :
        RowSpaced(BenchRow(bench, p), distance_on_bench)

\* a row that is spaced has no window of len rounds that is all bench
SpacedForbidsFullWindow(len) ==
    \A row \in [all_rounds -> {0, 1}] :
        RowSpaced(row, len) => \A r \in all_rounds : ~RowFullWindow(row, r, len)

\* C20 as stated: in every admitted assignment a player benched in round r is
\* not benched in the rounds (r+k) mod num_rounds, k = 1 .. distance_on_bench,
\* and this spacing forbids a fully benched window of distance_on_bench rounds
C20_SpacingForbidsWindow ==
    (prog = "benchAlloc" /\ ModelBuilt) =>
        /\ AdmittedAreSpaced
        /\ SpacedForbidsFullWindow(distance_on_bench)

\* C20 amended: in every assignment the benchAlloc.py model admits a player
\* benched in round r is not benched in the rounds (r+k) mod num_rounds,
\* k = 1 .. distance_on_bench; with distance_on_bench >= 2 this spacing forbids
\* a fully benched window of distance_on_bench rounds
C20_BenchSpacing ==
    (prog = "benchAlloc" /\ ModelBuilt) =>
        /\ AdmittedAreSpaced
        /\ (distance_on_bench >= 2 => SpacedForbidsFullWindow(distance_on_bench))

\* a solution was delivered with distance_on_bench >= 2 and a benched player,
\* and some row without a fully benched window is not spaced
C20_Witness ==
    /\ prog = "benchAlloc" /\ value # NoValue
    /\ distance_on_bench >= 2
    /\ \E p \in all_players : \E r \in all_rounds :
          /\ The(value)[<<p, r>>] = 1
          /\ \A k \in 1 .. distance_on_bench :
                The(value)[<<p, (r + k) % num_rounds>>] = 0
    /\ \E row \in [all_rounds -> {0, 1}] :
          /\ \A r \in all_rounds : ~RowFullWindow(row, r, distance_on_bench)
          /\ ~RowSpaced(row, distance_on_bench)

-----------------------------------------------------------------------------
(* Properties of the end of a run *)

\* solver.Solve has returned on a model that admits no assignment
InfeasibleRunEnded ==
    pc = "done" /\ ModelBuilt /\ model = {}

\* C18: a run whose model admits no solution ends in an outcome of its own,
\* an error that is reported, and not the way a run that found solutions ends
C18_InfeasibleIsReported ==
    InfeasibleRunEnded => err # "none"

\* a stage step that writes nothing: every step of courtAlloc.py, and every
\* step of the two other scripts but a callback that emits its solution
BenchFileWrittenOnlyOnEmission ==
    benchFile' # benchFile => (BenchCallbackStep /\ printit')

GroupsFileWrittenOnlyOnEmission ==
    groupsFile' # groupsFile => (TeamCallbackStep /\ printit')

\* C19: the bench file changes only in a step of benchAlloc.py's callback that
\* emits a solution and the groups file only in a step of teamAlloc.py's
\* callback that emits a solution; no other step of a run (an error while
\* reading the inputs, a return of solver.Solve on an infeasible model, a
\* callback that rejects its solution) changes either file
C19_ArtifactsChangeOnlyOnEmission ==
    [][BenchFileWrittenOnlyOnEmission /\ GroupsFileWrittenOnlyOnEmission]_vars

\* teamAlloc.py ended by an error while reading the bench file and the groups
\* file of an earlier run is still there
C19_Witness ==
    /\ prog = "teamAlloc" /\ pc = "done" /\ err # "none"
    /\ groupsFile # NoFile
    /\ groupsFile \in GroupsFilesBefore

-----------------------------------------------------------------------------
(* Properties of the duo slots *)

\* the players of a duo slot in a round
InDuo(duoVar, round, slot) ==
    { player \in all_players : duoVar[<<player, round, slot>>] = 1 }

\* the list of the groups file for one court is the two players of slot
\* 2*court in ascending order and then the two of slot 2*court+1
ListIsTwoPartnerships(list, first, second) ==
    /\ Len(list) = 4
    /\ list[1] < list[2]
    /\ list[3] < list[4]
    /\ { list[1] - 1, list[2] - 1 } = first
    /\ { list[3] - 1, list[4] - 1 } = second

\* C21: in every assignment the teamAlloc.py model admits, for every round and
\* played court c the duo slots 2c and 2c+1 hold 2 players each, are disjoint
\* and together are the 4 players on court c, and the groups file lists for
\* court c the players of slot 2c in ascending order followed by those of
\* slot 2c+1 in ascending order
C21_DuosSplitCourt ==
    (prog = "teamAlloc" /\ ModelBuilt) =>
        \A a \in model : \A round \in all_rounds : \A court \in all_played_courts :
            LET first == InDuo(a.duoVar, round, 2 * court)
                second == InDuo(a.duoVar, round, 2 * court + 1)
            IN  /\ Cardinality(first) = 2
                /\ Cardinality(second) = 2
                /\ first \cap second = {}
                /\ first \cup second = OnCourt(a.games, round, court)
                /\ Cardinality(OnCourt(a.games, round, court)) = 4
                /\ ListIsTwoPartnerships(
                       write_groups(a.duoVar)[round + 1][ToString(court)], first, second)

\* a groups file was written whose first list is not in ascending order as a
\* whole: its third entry is below its second
C21_Witness ==
    /\ prog = "teamAlloc" /\ value # NoValue /\ printit
    /\ groupsFile = Some(write_groups(The(value).duoVar))
    /\ LET list == The(groupsFile)[1]["0"]
       IN  list[1] < list[2] /\ list[3] < list[2] /\ list[3] < list[4]

-----------------------------------------------------------------------------
(* Properties of the incumbents kept by the callbacks *)

\* <<a1, a2>> is at most <<b1, b2>> in the lexicographic order
LexLeq(a, b) == a[1] < b[1] \/ (a[1] = b[1] /\ a[2] <= b[2])

\* the maximum court spread of a court assignment and the number of players
\* at that maximum
CourtMetrics(games) ==
    LET diff == playersCourtDiffMax(games, printer._group_assignements)
    IN  <<CourtDiffMax(diff), CourtDiffCount(diff)>>

\* one invocation of courtAlloc.py's callback leaves in (_bestCourtDiffMax,
\* _numPlayersWith_best) the lesser of what it held and the metrics of the
\* delivered solution, and the metrics themselves on the first invocation
CourtIncumbentStep ==
    LET old == <<printer._bestCourtDiffMax, printer._numPlayersWith_best>>
        new == <<printer'._bestCourtDiffMax, printer'._numPlayersWith_best>>
        got == CourtMetrics(The(value'))
    IN  /\ LexLeq(new, old)
        /\ printer._solution_count = 0 => (new = got /\ printit')
        /\ printer._solution_count > 0 => new = (IF LexLeq(got, old) THEN got ELSE old)

\* C22: after every invocation of courtAlloc.py's callback _bestCourtDiffMax is
\* the least maximum court spread delivered so far and _numPlayersWith_best
\* the least number of players at the maximum among the delivered solutions
\* with that spread; the pair never increases lexicographically and the first
\* delivered solution is reported
C22_CourtIncumbentIsMinimum ==
    [][CourtCallbackStep => CourtIncumbentStep]_vars

\* a second solution was delivered that is worse than the first: it was not
\* reported and the incumbent pair is still below its metrics
C22_Witness ==
    /\ prog = "courtAlloc" /\ pc = "solving" /\ value # NoValue
    /\ printer._solution_count = 2
    /\ ~printit
    /\ <<printer._bestCourtDiffMax, printer._numPlayersWith_best>> # CourtMetrics(The(value))
    /\ LexLeq(<<printer._bestCourtDiffMax, printer._numPlayersWith_best>>,
              CourtMetrics(The(value)))

\* C23: once teamAlloc.py's callback has emitted a solution, _best is the
\* pair-count spread of the solution held in the groups file and _better its
\* consecutive-round repeat count: a solution that is not emitted lowers
\* neither
C23_IncumbentIsEmittedSolution ==
    (prog = "teamAlloc" /\ ModelBuilt /\ GroupsFileWritten) =>
        /\ printer._best = TeamSpread(GroupsGames(The(groupsFile)))
        /\ printer._better = TeamSamePlayers(GroupsGames(The(groupsFile)))

\* C24: whenever the teamAlloc.py model is feasible, the first solution
\* delivered to the callback is emitted and written to the groups file: its
\* spread is at most _best = num_rounds and its consecutive-round repeat count
\* at most _better = num_players*(num_players+1)/2
C24_FirstSolutionEmitted ==
    [][(TeamCallbackStep /\ printer._solution_count = 0) =>
          /\ TeamSpread(The(value').games) <= printer._best
          /\ TeamSamePlayers(The(value').games) <= printer._better
          /\ printit'
          /\ groupsFile' = Some(write_groups(The(value').duoVar))]_vars

-----------------------------------------------------------------------------
(* Properties of benchAlloc.py with a spacing of num_rounds or more *)

\* the window of constraint #3 comes back to t1 itself
WindowWrapsOntoItself ==
    \A t1 \in all_rounds :
        \E tt \in BenchWindow : tt[1] = t1 /\ tt[2] % num_rounds = t1

\* C25: with num_bench > 0 and distance_on_bench >= num_rounds the window
\* t1+1 .. t1+distance_on_bench of constraint #3 wraps onto t1 itself, the
\* constraint leaves a player no round on the bench, and the benchAlloc.py
\* model admits no assignment
C25_WideSpacingIsInfeasible ==
    (prog = "benchAlloc" /\ ModelBuilt /\ num_bench > 0
        /\ distance_on_bench >= num_rounds) =>
        /\ WindowWrapsOntoItself
        /\ \A row \in [all_rounds -> {0, 1}] :
              BenchRowConstraint3(row) => \A t1 \in all_rounds : row[t1] = 0
        /\ model = {}

\* solver.Solve returned on a model with distance_on_bench >= num_rounds that
\* constraints #1 and #2 alone would leave feasible
C25_Witness ==
    /\ prog = "benchAlloc" /\ pc = "done" /\ ModelBuilt
    /\ num_bench > 0 /\ distance_on_bench >= num_rounds
    /\ model = {}
    /\ \E bench \in BenchMatrices : BenchConstraint2(bench)

-----------------------------------------------------------------------------
(* Properties of the recomputed metrics *)

\* the three computations of the bench-repeat count give the same number
BenchCountsAgree(bench) ==
    /\ BenchObjective(bench) = BenchSamePlayers(bench)
    /\ print_bench_optimization(read_bench_groups(write_bench(bench)))
          = BenchSamePlayers(bench)

\* C27: for every bench matrix the benchAlloc.py model admits, the objective
\* value of the model, the count that print_player_stat reports and the count
\* that the validator's print_bench_optimization recomputes from the bench
\* file are the same number (every admitted matrix is compared when
\* solver.Solve starts, the delivered one after each callback)
C27_BenchRepeatCountsAgree ==
    (prog = "benchAlloc" /\ ModelBuilt) =>
        /\ value = NoValue => \A bench \in model : BenchCountsAgree(bench)
        /\ value # NoValue =>
              /\ BenchCountsAgree(The(value))
              /\ printer.sameplayers = BenchObjective(The(value))
              /\ print_bench_optimization(read_bench_groups(The(benchFile)))
                    = printer.sameplayers

\* a solution in which two players share the bench in two rounds was delivered
\* and the validator recomputes its count from the bench file
C27_Witness ==
    /\ prog = "benchAlloc" /\ value # NoValue /\ benchFile # NoFile
    /\ BenchObjective(The(value)) > 0
    /\ print_bench_optimization(read_bench_groups(The(benchFile))) = printer.sameplayers

-----------------------------------------------------------------------------
(* Properties of the report lines *)

\* the slices of the line of a round decode to the lists that were printed
LineDecodesAsPrinted(games, round) ==
    LET line == round_line(games, printer._groups, printer._bench_matrix, round)
    IN  /\ \A court \in all_played_courts :
              json_loads(line_field(line, court))
                  = Some(playersAssigned(games, printer._groups, round)[court])
        /\ json_loads(line_field(line, num_courts)) = Some(printer._bench_matrix[round])

\* C26: for every round line of a report that courtAlloc.py prints, the
\* validator's slices [15+20*c, 15+20*c+20) and [15+20*num_courts, end) decode
\* to the list printed for court c and to the bench list, whatever the roster
C26_SlicesDecodeAsPrinted ==
    (prog = "courtAlloc" /\ value # NoValue /\ printit) =>
        /\ prefinalFile = Some(report_lines(The(value), printer))
        /\ \A round \in all_rounds : LineDecodesAsPrinted(The(value), round)

\* the two counts of the callback agree for a court assignment, and so does
\* the count the validator makes from the final file parsed from its report
CourtCountsAgree(games) ==
    LET ga == printer._group_assignements
        lines == report_lines(games, printer)
    IN  /\ \A court \in all_played_courts : \A player \in all_players :
              playersCourtCount(games, ga, court, player)
                  = groupAssigned(games, groupVar(ga), court, player)
        /\ prefinal_decodes(lines) =>
              LET final == prefinal_groups(lines)
                  diff == playersCourtDiffMax(games, ga)
              IN  /\ \A court \in all_played_courts : \A player \in all_players :
                        final_playersCourtCount(final, court, player)
                            = playersCourtCount(games, ga, court, player)
                  /\ final_playersCourtDiffMax(final) = diff
                  /\ CourtDiffMax(final_playersCourtDiffMax(final)) = CourtDiffMax(diff)
                  /\ CourtDiffCount(final_playersCourtDiffMax(final)) = CourtDiffCount(diff)

=============================================================================
